---- MODULE Spec2Model ----
(***************************************************************************)
(* Model of gdaltools/ogr2ogrcmd.py: the Ogr2ogr command builder.          *)
(*                                                                         *)
(* A Python string is a sequence of one-character strings, so that         *)
(* lower(), startswith(), endswith(), basename() and "+" are computed on   *)
(* characters.  A dict is a function whose domain is its set of keys.      *)
(* The variables are the builder's attributes plus the frame of the most   *)
(* recent statement on the builder: the method called (or "setattr" for an *)
(* assignment to one of its properties), what the statement evaluated to   *)
(* and, for execute, its local argument lists.                             *)
(***************************************************************************)
EXTENDS Integers, Sequences, FiniteSets, TLC

\* ------------------------------------------------------------ bounds
\* Longest stem (the part between prefix and suffix) of the destinations
\* the format-resolution specification draws from.
MaxStemLen == 1
\* Largest number of entries of a user option mapping assigned in the
\* option-layer specification.
MaxUserKeys == 1

\* ------------------------------------------------------------ Python values
\* Python's None: not a text (its one element is no single character).
None == <<"None">>

\* `if x:` for x a string or None.
Truthy(x) == x # None /\ x # <<>>

EmptyDict == [k \in {} |-> None]

\* dict.update: result of copying a and updating it with b.
UpdateInternalWins(a, b) ==
    [k \in DOMAIN a \cup DOMAIN b |-> IF k \in DOMAIN a THEN a[k] ELSE b[k]]

Update(a, b) ==
    [k \in DOMAIN a \cup DOMAIN b |-> IF k \in DOMAIN b THEN b[k] ELSE a[k]]

\* d[k] = v
Put(d, k, v) == [x \in DOMAIN d \cup {k} |-> IF x = k THEN v ELSE d[x]]

UpperCase == <<"A","B","C","D","E","F","G","H","I","J","K","L","M",
               "N","O","P","Q","R","S","T","U","V","W","X","Y","Z">>
LowerCase == <<"a","b","c","d","e","f","g","h","i","j","k","l","m",
               "n","o","p","q","r","s","t","u","v","w","x","y","z">>

LowerChar(c) ==
    IF \E i \in DOMAIN UpperCase : UpperCase[i] = c
    THEN LowerCase[CHOOSE i \in DOMAIN UpperCase : UpperCase[i] = c]
    ELSE c

\* str.lower()
Lower(s) == [i \in 1..Len(s) |-> LowerChar(s[i])]

\* str.endswith / str.startswith
EndsWith(s, suffix) ==
    /\ Len(s) >= Len(suffix)
    /\ SubSeq(s, Len(s) - Len(suffix) + 1, Len(s)) = suffix

StartsWith(s, prefix) ==
    /\ Len(s) >= Len(prefix)
    /\ SubSeq(s, 1, Len(prefix)) = prefix

\* os.path.basename (posixpath): what follows the last "/".
BaseNameStem(p) ==
    LET slashes == {i \in 1..Len(p) : p[i] = "/"}
        start == IF slashes = {} THEN 1
                 ELSE 1 + CHOOSE i \in slashes : \A j \in slashes : j <= i
        dots == {i \in start..Len(p) : p[i] = "."}
        stop == IF dots = {} THEN Len(p)
                ELSE (CHOOSE i \in dots : \A j \in dots : j <= i) - 1
    IN SubSeq(p, start, stop)

BaseName(p) ==
    LET slashes == {i \in 1..Len(p) : p[i] = "/"}
        start == IF slashes = {} THEN 1
                 ELSE 1 + CHOOSE i \in slashes : \A j \in slashes : j <= i
    IN SubSeq(p, start, Len(p))

\* ------------------------------------------------------------ class constants
MODE_LAYER_CREATE == "CR"
MODE_LAYER_APPEND == "AP"
MODE_LAYER_OVERWRITE == "OW"
MODE_DS_CREATE == "CR"
MODE_DS_UPDATE == "UP"
MODE_DS_CREATE_OR_UPDATE == "CU"
OGR2OGR_PATH == <<"/", "u", "s", "r", "/", "b", "i", "n", "/", "o", "g", "r", "2", "o", "g", "r">>

\* ------------------------------------------------------------ literals
F_UPDATE == <<"-", "u", "p", "d", "a", "t", "e">>
F_APPEND == <<"-", "a", "p", "p", "e", "n", "d">>
F_OVERWRITE == <<"-", "o", "v", "e", "r", "w", "r", "i", "t", "e">>
F_T_SRS == <<"-", "t", "_", "s", "r", "s">>
F_A_SRS == <<"-", "a", "_", "s", "r", "s">>
F_S_SRS == <<"-", "s", "_", "s", "r", "s">>
F_F == <<"-", "f">>
F_DSCO == <<"-", "d", "s", "c", "o">>
F_LCO == <<"-", "l", "c", "o">>
F_CONFIG == <<"-", "-", "c", "o", "n", "f", "i", "g">>
F_NLN == <<"-", "n", "l", "n">>
F_NLT == <<"-", "n", "l", "t">>

ESRI_SHAPEFILE == <<"E", "S", "R", "I", " ", "S", "h", "a", "p", "e", "f", "i", "l", "e">>
POSTGRESQL == <<"P", "o", "s", "t", "g", "r", "e", "S", "Q", "L">>
SQLITE == <<"S", "Q", "L", "i", "t", "e">>
GEOJSON == <<"G", "e", "o", "J", "S", "O", "N">>
GML == <<"G", "M", "L">>
CSV == <<"C", "S", "V">>
GPX == <<"G", "P", "X">>
KML == <<"K", "M", "L">>

SHAPE_ENCODING == <<"S", "H", "A", "P", "E", "_", "E", "N", "C", "O", "D", "I", "N", "G">>
SPATIALITE == <<"S", "P", "A", "T", "I", "A", "L", "I", "T", "E">>
YES == <<"Y", "E", "S">>
PROMOTE_TO_MULTI == <<"P", "R", "O", "M", "O", "T", "E", "_", "T", "O", "_", "M", "U", "L", "T", "I">>

\* ------------------------------------------------------------ basetypes
\* The data source references of gdaltools/basetypes.py.  A reference has a
\* type discriminator, a rendering for execution and one for display.
\* A caller's argument is either a raw path string or a ConnectionString
\* object that carries its own two renderings.
RawPath(p) == [kind |-> "str", text |-> p, disp |-> p]

ConnectionString(execution, display) ==
    [kind |-> "conn", text |-> execution, disp |-> display]

FileConnectionString(p) == [kind |-> "file", text |-> p, disp |-> p]

\* The attribute has not been assigned yet (reading it raises AttributeError).
Unset == [kind |-> "unset", text |-> <<>>, disp |-> <<>>]

\* The execution rendering of a character of a path: UTF-8, one byte for an
\* ASCII character and two for U+00F1.
Utf8Char(c) == IF c = "U+00F1" THEN <<"0xC3", "0xB1">> ELSE <<c>>

RECURSIVE Utf8(_)
Utf8(s) == IF s = <<>> THEN <<>> ELSE Utf8Char(Head(s)) \o Utf8(Tail(s))

\* ds.encode()
Encode(ds) == IF ds.kind = "file" THEN Utf8(ds.text) ELSE ds.text

\* unicode(ds)
Display(ds) == ds.disp

\* The isinstance(x, ConnectionString) test and the wrapping of raw paths.
AsConnectionString(x) ==
    IF x.kind = "str" THEN FileConnectionString(x.text) ELSE x

\* ------------------------------------------------------------ state
VARIABLES
    in_ds, in_table, in_srs, in_encoding,
    out_ds, out_file_type, out_table, out_srs,
    layer_mode, data_source_mode, geom,
    dataset_creation_options_user, dataset_creation_options_internal,
    layer_creation_options_user, layer_creation_options_internal,
    config_options_user, config_options_internal,
    op, ret, file_type_arg, args, safe_args, run_args

inputVars == <<in_ds, in_table, in_srs, in_encoding>>
outputVars == <<out_ds, out_file_type, out_table, out_srs>>
modeVars == <<layer_mode, data_source_mode>>
userVars == <<dataset_creation_options_user, layer_creation_options_user,
              config_options_user>>
internalVars == <<dataset_creation_options_internal,
                  layer_creation_options_internal, config_options_internal>>
configVars == <<inputVars, outputVars, modeVars, geom, userVars, internalVars>>
frameVars == <<op, ret, file_type_arg, args, safe_args, run_args>>
vars == <<configVars, frameVars>>

\* The frame of a call that builds no argument list.
Returns(name, value, file_type) ==
    /\ op' = name
    /\ ret' = value
    /\ file_type_arg' = file_type
    /\ args' = <<>>
    /\ safe_args' = <<>>
    /\ run_args' = <<>>

\* ------------------------------------------------------------ __init__
Init ==
    /\ in_ds = Unset /\ in_table = None /\ in_srs = None /\ in_encoding = None
    /\ out_ds = Unset /\ out_file_type = None
    /\ out_table = None /\ out_srs = None
    /\ layer_mode = MODE_LAYER_CREATE
    /\ data_source_mode = MODE_DS_CREATE
    /\ geom = None
    /\ dataset_creation_options_user = EmptyDict
    /\ layer_creation_options_user = EmptyDict
    /\ dataset_creation_options_internal = EmptyDict
    /\ layer_creation_options_internal = EmptyDict
    /\ config_options_user = EmptyDict
    /\ config_options_internal = EmptyDict
    /\ op = "__init__" /\ ret = "None" /\ file_type_arg = None
    /\ args = <<>> /\ safe_args = <<>> /\ run_args = <<>>

\* ------------------------------------------------------------ set_input
InjectEncodingOrReset(internal, encoding) ==
    IF Truthy(encoding) THEN Put(internal, SHAPE_ENCODING, encoding)
    ELSE EmptyDict

InjectEncoding(internal, encoding) ==
    IF Truthy(encoding) THEN Put(internal, SHAPE_ENCODING, encoding)
    ELSE internal

SetInput(sources, tables, srss, encodings) ==
    \E input_ds \in sources, table_name \in tables, srs \in srss,
       encoding \in encodings :
        /\ in_ds' = AsConnectionString(input_ds)
        /\ in_table' = table_name
        /\ in_srs' = srs
        /\ in_encoding' = encoding
        /\ config_options_internal' =
               InjectEncoding(config_options_internal, encoding)
        /\ Returns("set_input", "self", None)
        /\ UNCHANGED <<outputVars, modeVars, geom, userVars,
                       dataset_creation_options_internal,
                       layer_creation_options_internal>>

\* ------------------------------------------------------------ set_output
ResolveFileTypePrefixFirst(file_type, dslower) ==
    IF Truthy(file_type) THEN file_type
    ELSE IF StartsWith(dslower, <<"p", "g", ":">>) THEN POSTGRESQL
    ELSE IF EndsWith(dslower, <<".", "s", "h", "p">>) THEN ESRI_SHAPEFILE
    ELSE IF EndsWith(dslower, <<".", "s", "q", "l", "i", "t", "e">>) THEN SQLITE
    ELSE IF EndsWith(dslower, <<".", "j", "s", "o", "n">>)
            \/ EndsWith(dslower, <<".", "g", "e", "o", "j", "s", "o", "n">>) THEN GEOJSON
    ELSE IF EndsWith(dslower, <<".", "g", "m", "l">>) THEN GML
    ELSE IF EndsWith(dslower, <<".", "c", "s", "v">>) THEN CSV
    ELSE IF EndsWith(dslower, <<".", "g", "p", "x">>) THEN GPX
    ELSE IF EndsWith(dslower, <<".", "k", "m", "l">>) THEN KML
    ELSE ESRI_SHAPEFILE

ResolveFileType(file_type, dslower) ==
    IF Truthy(file_type) THEN file_type
    ELSE IF EndsWith(dslower, <<".", "s", "h", "p">>) THEN ESRI_SHAPEFILE
    ELSE IF StartsWith(dslower, <<"p", "g", ":">>) THEN POSTGRESQL
    ELSE IF EndsWith(dslower, <<".", "s", "q", "l", "i", "t", "e">>) THEN SQLITE
    ELSE IF EndsWith(dslower, <<".", "j", "s", "o", "n">>)
            \/ EndsWith(dslower, <<".", "g", "e", "o", "j", "s", "o", "n">>) THEN GEOJSON
    ELSE IF EndsWith(dslower, <<".", "g", "m", "l">>) THEN GML
    ELSE IF EndsWith(dslower, <<".", "c", "s", "v">>) THEN CSV
    ELSE IF EndsWith(dslower, <<".", "g", "p", "x">>) THEN GPX
    ELSE IF EndsWith(dslower, <<".", "k", "m", "l">>) THEN KML
    ELSE ESRI_SHAPEFILE

\* Lines 130-131 test the file_type parameter, not the resolved format.
InjectSpatialite(internal, file_type) ==
    IF file_type = SQLITE THEN Put(internal, SPATIALITE, YES) ELSE internal

SetOutput(dests, file_types, tables, srss) ==
    \E output_ds \in dests, file_type \in file_types, table_name \in tables,
       srs \in srss :
        /\ out_ds' = AsConnectionString(output_ds)
        /\ out_file_type' = ResolveFileType(file_type, Lower(Encode(out_ds')))
        /\ dataset_creation_options_internal' =
               InjectSpatialite(dataset_creation_options_internal, file_type)
        /\ out_table' = table_name
        /\ out_srs' = srs
        /\ Returns("set_output", "self", file_type)
        /\ UNCHANGED <<inputVars, modeVars, geom, userVars,
                       layer_creation_options_internal,
                       config_options_internal>>

\* ------------------------------------------------------------ geom_type
GeomType ==
    IF out_file_type = POSTGRESQL /\ ~Truthy(geom) THEN PROMOTE_TO_MULTI
    ELSE geom

SetGeomType(geom_types) ==
    \E geom_type \in geom_types :
        /\ geom' = geom_type
        /\ Returns("setattr", "None", None)
        /\ UNCHANGED <<inputVars, outputVars, modeVars, userVars, internalVars>>

\* ------------------------------------------------------------ set_output_mode
\* The method has no return statement: the call evaluates to None.
SetOutputMode(layer_modes, data_source_modes) ==
    \E lm \in layer_modes, dm \in data_source_modes :
        /\ layer_mode' = lm
        /\ data_source_mode' = dm
        /\ Returns("set_output_mode", "None", None)
        /\ UNCHANGED <<inputVars, outputVars, geom, userVars, internalVars>>

\* ------------------------------------------------------------ option layers
DatasetCreationOptions ==
    Update(dataset_creation_options_internal, dataset_creation_options_user)

LayerCreationOptions ==
    Update(layer_creation_options_internal, layer_creation_options_user)

ConfigOptions == Update(config_options_internal, config_options_user)

SetDatasetCreationOptions(mappings) ==
    \E ds_creation_options \in mappings :
        /\ dataset_creation_options_user' = ds_creation_options
        /\ Returns("setattr", "None", None)
        /\ UNCHANGED <<inputVars, outputVars, modeVars, geom, internalVars,
                       layer_creation_options_user, config_options_user>>

SetLayerCreationOptions(mappings) ==
    \E layer_creation_options \in mappings :
        /\ layer_creation_options_user' = layer_creation_options
        /\ Returns("setattr", "None", None)
        /\ UNCHANGED <<inputVars, outputVars, modeVars, geom, internalVars,
                       dataset_creation_options_user, config_options_user>>

SetConfigOptions(mappings) ==
    \E options \in mappings :
        /\ config_options_user' = options
        /\ Returns("setattr", "None", None)
        /\ UNCHANGED <<inputVars, outputVars, modeVars, geom, internalVars,
                       dataset_creation_options_user,
                       layer_creation_options_user>>

\* ------------------------------------------------------------ execute
\* dict.iteritems(): the keys in some order the caller does not control.
Orders(keys) ==
    {s \in [1..Cardinality(keys) -> keys] :
        \A i, j \in 1..Cardinality(keys) : i # j => s[i] # s[j]}

\* Lines 197-204; exists is os.path.exists(unicode(self.out_ds)).
DataSourceModeArgsIfExists(mode, is_file, exists) ==
    IF mode = MODE_DS_UPDATE THEN <<F_UPDATE>>
    ELSE IF mode = MODE_DS_CREATE_OR_UPDATE
         THEN IF is_file /\ ~exists THEN <<>> ELSE <<F_UPDATE>>
    ELSE <<>>

DataSourceModeArgs(mode, is_file, exists) ==
    IF mode = MODE_DS_UPDATE THEN <<F_UPDATE>>
    ELSE IF mode = MODE_DS_CREATE_OR_UPDATE
         THEN IF is_file /\ exists THEN <<F_UPDATE>> ELSE <<F_UPDATE>>
    ELSE <<>>

\* Lines 206-209
LayerModeArgs(mode) ==
    IF mode = MODE_LAYER_APPEND THEN <<F_APPEND>>
    ELSE IF mode = MODE_LAYER_OVERWRITE THEN <<F_OVERWRITE>>
    ELSE <<>>

\* Lines 211-216
SrsArgs(o_srs, i_srs) ==
    (IF Truthy(o_srs) THEN <<F_T_SRS, o_srs>> ELSE <<>>)
    \o (IF Truthy(i_srs) THEN <<F_A_SRS, i_srs, F_S_SRS, i_srs>> ELSE <<>>)

\* Lines 220-223: flag, KEY=VALUE for each item.
RECURSIVE CreationOptionArgs(_, _, _)
CreationOptionArgs(flag, options, order) ==
    IF order = <<>> THEN <<>>
    ELSE <<flag, Head(order) \o <<"=">> \o options[Head(order)]>>
         \o CreationOptionArgs(flag, options, Tail(order))

\* Lines 224-225: --config, KEY, VALUE for each item.
RECURSIVE ConfigOptionArgs(_, _)
ConfigOptionArgs(options, order) ==
    IF order = <<>> THEN <<>>
    ELSE <<F_CONFIG, Head(order), options[Head(order)]>>
         \o ConfigOptionArgs(options, Tail(order))

\* Lines 227-232
LayerNameArgsInputFirst(o_table, i_table, i_ds) ==
    IF Truthy(i_table) THEN <<F_NLN, i_table>>
    ELSE IF Truthy(o_table) THEN <<F_NLN, o_table>>
    ELSE IF i_ds.kind = "file" THEN <<F_NLN, BaseName(Encode(i_ds))>>
    ELSE <<>>

LayerNameArgs(o_table, i_table, i_ds) ==
    IF Truthy(o_table) THEN <<F_NLN, o_table>>
    ELSE IF Truthy(i_table) THEN <<F_NLN, i_table>>
    ELSE IF i_ds.kind = "file" THEN <<F_NLN, BaseName(Encode(i_ds))>>
    ELSE <<>>

\* Lines 234-235
GeomTypeArgs(geom_type) ==
    IF Truthy(geom_type) THEN <<F_NLT, geom_type>> ELSE <<>>

\* Lines 195-235: args as it stands when safe_args is copied from it.
FlagArgsNameBeforeOptions(exists, ds_order, lco_order, cfg_order) ==
    <<OGR2OGR_PATH>>
    \o DataSourceModeArgs(data_source_mode, out_ds.kind = "file", exists)
    \o LayerModeArgs(layer_mode)
    \o SrsArgs(out_srs, in_srs)
    \o <<F_F, out_file_type>>
    \o LayerNameArgs(out_table, in_table, in_ds)
    \o CreationOptionArgs(F_DSCO, DatasetCreationOptions, ds_order)
    \o CreationOptionArgs(F_LCO, LayerCreationOptions, lco_order)
    \o ConfigOptionArgs(ConfigOptions, cfg_order)
    \o GeomTypeArgs(GeomType)

FlagArgs(exists, ds_order, lco_order, cfg_order) ==
    <<OGR2OGR_PATH>>
    \o DataSourceModeArgs(data_source_mode, out_ds.kind = "file", exists)
    \o LayerModeArgs(layer_mode)
    \o SrsArgs(out_srs, in_srs)
    \o <<F_F, out_file_type>>
    \o CreationOptionArgs(F_DSCO, DatasetCreationOptions, ds_order)
    \o CreationOptionArgs(F_LCO, LayerCreationOptions, lco_order)
    \o ConfigOptionArgs(ConfigOptions, cfg_order)
    \o LayerNameArgs(out_table, in_table, in_ds)
    \o GeomTypeArgs(GeomType)

\* Lines 238-243: the positionals appended to either list.
Positionals(out_text, in_text, i_table) ==
    IF Truthy(i_table) THEN <<out_text, in_text, i_table>>
    ELSE <<out_text, in_text>>

\* Line 246: the list handed to Wrapper._do_execute.
DoExecuteSafeArgs(exec_args, log_args) == log_args

DoExecuteArgs(exec_args, log_args) == exec_args

\* execute reads in_srs / out_srs (and out_ds) before it builds anything a
\* caller can see: without set_input and set_output it raises.
Configured == in_ds.kind # "unset" /\ out_ds.kind # "unset"

ExecuteRaises ==
    /\ ~Configured
    /\ op' = "execute"
    /\ ret' = "AttributeError"
    /\ file_type_arg' = None
    /\ args' = <<>>
    /\ safe_args' = <<>>
    /\ run_args' = <<>>
    /\ UNCHANGED configVars

ExecuteRuns ==
    /\ Configured
    /\ \E exists \in BOOLEAN,
          ds_order \in Orders(DOMAIN DatasetCreationOptions),
          lco_order \in Orders(DOMAIN LayerCreationOptions),
          cfg_order \in Orders(DOMAIN ConfigOptions) :
        LET flag_args == FlagArgs(exists, ds_order, lco_order, cfg_order)
            exec_args == flag_args
                \o Positionals(Encode(out_ds), Encode(in_ds), in_table)
            log_args == flag_args
                \o Positionals(Display(out_ds), Display(in_ds), in_table)
        IN /\ args' = exec_args
           /\ safe_args' = log_args
           /\ run_args' = DoExecuteArgs(exec_args, log_args)
    /\ op' = "execute"
    /\ ret' = "result"
    /\ file_type_arg' = None
    /\ UNCHANGED configVars

\* ------------------------------------------------------------ inputs
ROADS_SHP == <<"/", "d", "a", "t", "a", "/", "r", "o", "a", "d", "s", ".", "s", "h", "p">>
PARCELS == <<"p", "a", "r", "c", "e", "l", "s">>
EPSG_4326 == <<"E", "P", "S", "G", ":", "4", "3", "2", "6">>
EPSG_3857 == <<"E", "P", "S", "G", ":", "3", "8", "5", "7">>
LATIN1 == <<"l", "a", "t", "i", "n", "1">>
UTF8 == <<"u", "t", "f", "8">>
NO == <<"N", "O">>
POINT == <<"P", "O", "I", "N", "T">>
OUT_T == <<"o", "u", "t", "_", "t">>
METADATA == <<"M", "E", "T", "A", "D", "A", "T", "A">>
SPATIAL_INDEX == <<"S", "P", "A", "T", "I", "A", "L", "_", "I", "N", "D", "E", "X">>
PG_USE_COPY == <<"P", "G", "_", "U", "S", "E", "_", "C", "O", "P", "Y">>

PgConnection ==
    ConnectionString(<<"P", "G", ":", "d", "b", "n", "a", "m", "e", "=", "g", "i", "s", " ", "p", "a", "s", "s", "w", "o", "r", "d", "=", "s", "3">>,
                     <<"P", "G", ":", "d", "b", "n", "a", "m", "e", "=", "g", "i", "s", " ", "p", "a", "s", "s", "w", "o", "r", "d", "=", "x", "x">>)

\* A path with a non-ASCII character: "/d/a" U+00F1 "o.csv".
AnioCsv == <<"/", "d", "/", "a", "U+00F1", "o", ".", "c", "s", "v">>

OUT_SHP == <<"o", "u", "t", ".", "s", "h", "p">>
OUT_SQLITE == <<"o", "u", "t", ".", "s", "q", "l", "i", "t", "e">>

\* The restriction of an option mapping to each set of at most n of its keys.
SubDicts(full, n) ==
    {[k \in keys |-> full[k]] :
        keys \in {ks \in SUBSET DOMAIN full : Cardinality(ks) <= n}}

\* All texts over chars of length at most n.
RECURSIVE TextsUpTo(_, _)
TextsUpTo(chars, n) ==
    IF n = 0 THEN {<<>>}
    ELSE LET shorter == TextsUpTo(chars, n - 1)
         IN shorter \cup {Append(t, c) : t \in shorter, c \in chars}

\* ------------------------------------------------------------ Spec
\* One builder driven through every operation; the inputs make every group
\* of the argument list appear and disappear.
Sources == {RawPath(ROADS_SHP), PgConnection}
Dests == {RawPath(OUT_SHP), PgConnection}
LayerModes == {MODE_LAYER_CREATE, MODE_LAYER_APPEND, MODE_LAYER_OVERWRITE}
DataSourceModes == {MODE_DS_CREATE, MODE_DS_UPDATE, MODE_DS_CREATE_OR_UPDATE}
DatasetMappings == {EmptyDict, (SPATIALITE :> NO) @@ (METADATA :> YES)}
LayerMappings == {EmptyDict, SPATIAL_INDEX :> YES}
ConfigMappings == {EmptyDict, PG_USE_COPY :> YES}

Next ==
    \/ SetInput(Sources, {None, PARCELS}, {None, EPSG_4326}, {None})
    \/ SetOutput(Dests, {None}, {None, OUT_T}, {None, EPSG_3857})
    \/ SetOutputMode(LayerModes, {MODE_DS_CREATE, MODE_DS_UPDATE})
    \/ SetGeomType({None, POINT})
    \/ SetDatasetCreationOptions(DatasetMappings)
    \/ SetLayerCreationOptions(LayerMappings)
    \/ SetConfigOptions(ConfigMappings)
    \/ ExecuteRaises
    \/ ExecuteRuns

Spec == Init /\ [][Next]_vars

\* ------------------------------------------------------------ SpecOptions
\* The option layers and the data-source modes: encodings and SQLite outputs
\* populate the internal mappings while the user mappings are assigned and
\* reassigned, for file and connection outputs under each data-source mode.
OptionDests == {RawPath(AnioCsv), RawPath(OUT_SQLITE), PgConnection}
FullDatasetMapping == (SPATIALITE :> NO) @@ (METADATA :> YES)
FullLayerMapping == SPATIAL_INDEX :> YES
FullConfigMapping == (SHAPE_ENCODING :> UTF8) @@ (PG_USE_COPY :> YES)

NextOptions ==
    \/ SetInput({RawPath(ROADS_SHP)}, {None}, {None}, {None, LATIN1})
    \/ SetOutput(OptionDests, {None, SQLITE}, {None}, {None})
    \/ SetOutputMode({MODE_LAYER_CREATE}, DataSourceModes)
    \/ SetGeomType({None})
    \/ SetDatasetCreationOptions(SubDicts(FullDatasetMapping, MaxUserKeys))
    \/ SetLayerCreationOptions(SubDicts(FullLayerMapping, MaxUserKeys))
    \/ SetConfigOptions(SubDicts(FullConfigMapping, MaxUserKeys))
    \/ ExecuteRaises
    \/ ExecuteRuns

SpecOptions == Init /\ [][NextOptions]_vars

\* ------------------------------------------------------------ SpecFormat
\* set_output applied to destinations prefix + stem + suffix and to a
\* connection object, with and without file_type.
FormatPrefixes == {<<>>, <<"p", "g", ":">>, <<"P", "G", ":">>}
FormatSuffixes ==
    {<<>>, <<".", "s", "h", "p">>, <<".", "S", "H", "P">>, <<".", "s", "q", "l", "i", "t", "e">>, <<".", "j", "s", "o", "n">>, <<".", "G", "e", "o", "J", "S", "O", "N">>,
     <<".", "g", "m", "l">>, <<".", "c", "s", "v">>, <<".", "g", "p", "x">>, <<".", "K", "M", "L">>, <<".", "t", "x", "t">>, <<"s", "h", "p">>}
FormatStems == TextsUpTo({"a"}, MaxStemLen)
FormatDests ==
    {RawPath(p \o m \o s) :
        p \in FormatPrefixes, m \in FormatStems, s \in FormatSuffixes}
    \cup {PgConnection}

NextFormat == SetOutput(FormatDests, {None, <<>>, GML, SQLITE}, {None}, {None})

SpecFormat == Init /\ [][NextFormat]_vars

\* ------------------------------------------------------------ properties
\* The most recent statement was an execute that built its argument list.
Executed == op = "execute" /\ ret = "result"

\* The positions of a token in execute's argument list.
FlagAt(f) == {i \in 1..Len(args) : args[i] = f}

\* b is what is left of p after its last "/".
IsBaseNameOf(b, p) ==
    \E i \in 0..Len(p) :
        /\ SubSeq(p, i + 1, Len(p)) = b
        /\ \A j \in 1..Len(b) : b[j] # "/"
        /\ i = 0 \/ p[i] = "/"

HasSuffix(d, s) == \E i \in 0..Len(d) : SubSeq(d, i + 1, Len(d)) = s
HasPrefix(d, s) == \E i \in 0..Len(d) : SubSeq(d, 1, i) = s

\* C1: whenever the resolved output format is SQLite, the merged
\* dataset-creation options contain SPATIALITE=YES unless the user mapping
\* has the key SPATIALITE.
C1_SpatialiteWheneverSQLite ==
    out_file_type = SQLITE =>
        \/ SPATIALITE \in DOMAIN dataset_creation_options_user
        \/ /\ SPATIALITE \in DOMAIN DatasetCreationOptions
           /\ DatasetCreationOptions[SPATIALITE] = YES

\* C2, as claimed: without file_type every "pg:" destination resolves to
\* PostgreSQL and every known suffix to its format, whatever else the text
\* holds; a file_type that is passed is the resolved format.  (The empty
\* file_type is read as neither case and left unconstrained here.)
C2_PrefixAndSuffixTable ==
    op = "set_output" /\ file_type_arg # <<>> =>
        LET d == Lower(Encode(out_ds)) IN
        IF file_type_arg # None THEN out_file_type = file_type_arg
        ELSE /\ HasPrefix(d, <<"p", "g", ":">>) => out_file_type = POSTGRESQL
             /\ HasSuffix(d, <<".", "s", "h", "p">>) => out_file_type = ESRI_SHAPEFILE
             /\ HasSuffix(d, <<".", "s", "q", "l", "i", "t", "e">>) => out_file_type = SQLITE
             /\ HasSuffix(d, <<".", "j", "s", "o", "n">>) => out_file_type = GEOJSON
             /\ HasSuffix(d, <<".", "g", "e", "o", "j", "s", "o", "n">>) => out_file_type = GEOJSON
             /\ HasSuffix(d, <<".", "g", "m", "l">>) => out_file_type = GML
             /\ HasSuffix(d, <<".", "c", "s", "v">>) => out_file_type = CSV
             /\ HasSuffix(d, <<".", "g", "p", "x">>) => out_file_type = GPX
             /\ HasSuffix(d, <<".", "k", "m", "l">>) => out_file_type = KML

KnownSuffixes ==
    {<<".", "s", "h", "p">>, <<".", "s", "q", "l", "i", "t", "e">>, <<".", "j", "s", "o", "n">>, <<".", "g", "e", "o", "j", "s", "o", "n">>, <<".", "g", "m", "l">>,
     <<".", "c", "s", "v">>, <<".", "g", "p", "x">>, <<".", "k", "m", "l">>}

\* C2, amended: a non-empty file_type is the resolved format; otherwise the
\* lower-cased destination is matched in the order ".shp" suffix, "pg:"
\* prefix, then the other suffixes, and the first match decides: ".shp" wins
\* over "pg:", "pg:" wins over every other suffix, no match gives
\* ESRI Shapefile.
C2_FirstMatchResolution ==
    op = "set_output" =>
        LET d == Lower(Encode(out_ds))
            shp == HasSuffix(d, <<".", "s", "h", "p">>)
            pg == HasPrefix(d, <<"p", "g", ":">>)
        IN
        IF file_type_arg # None /\ file_type_arg # <<>>
        THEN out_file_type = file_type_arg
        ELSE /\ shp => out_file_type = ESRI_SHAPEFILE
             /\ ~shp /\ pg => out_file_type = POSTGRESQL
             /\ ~pg /\ HasSuffix(d, <<".", "s", "q", "l", "i", "t", "e">>) => out_file_type = SQLITE
             /\ ~pg /\ HasSuffix(d, <<".", "j", "s", "o", "n">>) => out_file_type = GEOJSON
             /\ ~pg /\ HasSuffix(d, <<".", "g", "e", "o", "j", "s", "o", "n">>) => out_file_type = GEOJSON
             /\ ~pg /\ HasSuffix(d, <<".", "g", "m", "l">>) => out_file_type = GML
             /\ ~pg /\ HasSuffix(d, <<".", "c", "s", "v">>) => out_file_type = CSV
             /\ ~pg /\ HasSuffix(d, <<".", "g", "p", "x">>) => out_file_type = GPX
             /\ ~pg /\ HasSuffix(d, <<".", "k", "m", "l">>) => out_file_type = KML
             /\ ~pg /\ (\A s \in KnownSuffixes : ~HasSuffix(d, s))
                    => out_file_type = ESRI_SHAPEFILE

\* set_output without file_type on an upper-case "PG:" destination that
\* ends in ".shp": the suffix decided.
C2_Witness ==
    /\ op = "set_output"
    /\ file_type_arg = None
    /\ StartsWith(Encode(out_ds), <<"P", "G", ":">>)
    /\ EndsWith(Encode(out_ds), <<".", "s", "h", "p">>)
    /\ out_file_type = ESRI_SHAPEFILE

\* ---- the argument list of execute
Flags ==
    {F_UPDATE, F_APPEND, F_OVERWRITE, F_T_SRS, F_A_SRS, F_S_SRS, F_F,
     F_DSCO, F_LCO, F_CONFIG, F_NLN, F_NLT}

\* The place of a flag's group in the claimed order.
Rank(f) ==
    CASE f = F_UPDATE -> 1
      [] f \in {F_APPEND, F_OVERWRITE} -> 2
      [] f = F_T_SRS -> 3
      [] f = F_A_SRS -> 4
      [] f = F_S_SRS -> 5
      [] f = F_F -> 6
      [] f = F_DSCO -> 7
      [] f = F_LCO -> 8
      [] f = F_CONFIG -> 9
      [] f = F_NLN -> 10
      [] f = F_NLT -> 11

\* The number of tokens a flag takes, itself included.
Width(f) ==
    IF f \in {F_UPDATE, F_APPEND, F_OVERWRITE} THEN 1
    ELSE IF f = F_CONFIG THEN 3
    ELSE 2

\* The number of trailing positionals.
NumPositionals == IF Truthy(in_table) THEN 3 ELSE 2

\* The tokens "KEY=VALUE" of a mapping, and its pairs.
KeyEqualsValue(m) == {k \o <<"=">> \o m[k] : k \in DOMAIN m}
Items(m) == {<<k, m[k]>> : k \in DOMAIN m}

\* C3: execute's argument list is the executable, then the groups in the
\* order -update, -append/-overwrite, -t_srs, -a_srs, -s_srs, -f, every
\* -dsco, every -lco, every --config, -nln, -nlt, each present exactly when
\* its setting is and carrying its value, and last the positionals: output,
\* input and, only if given, the input table name.
C3_ArgumentOrder ==
    Executed =>
        LET n == Len(args)
            last == n - NumPositionals
            flagIdx == {i \in 2..last : args[i] \in Flags}
        IN
        /\ args[1] = OGR2OGR_PATH
        /\ \A i, j \in flagIdx : i < j => Rank(args[i]) <= Rank(args[j])
        /\ \A i, j \in flagIdx :
               i < j /\ Rank(args[i]) = Rank(args[j])
                   => args[i] = args[j] /\ args[i] \in {F_DSCO, F_LCO, F_CONFIG}
        /\ \A i, j \in flagIdx : i < j => i + Width(args[i]) <= j
        /\ \A i \in flagIdx : i + Width(args[i]) - 1 <= last
        /\ \A q \in 2..last :
               \E i \in flagIdx : i <= q /\ q < i + Width(args[i])
        /\ FlagAt(F_T_SRS) # {} <=> Truthy(out_srs)
        /\ \A i \in FlagAt(F_T_SRS) : args[i + 1] = out_srs
        /\ FlagAt(F_A_SRS) # {} <=> Truthy(in_srs)
        /\ FlagAt(F_S_SRS) # {} <=> Truthy(in_srs)
        /\ \A i \in FlagAt(F_A_SRS) :
               args[i + 1] = in_srs /\ args[i + 2] = F_S_SRS
        /\ \A i \in FlagAt(F_S_SRS) : args[i + 1] = in_srs
        /\ Cardinality(FlagAt(F_F)) = 1
        /\ \A i \in FlagAt(F_F) : args[i + 1] = out_file_type
        /\ Cardinality(FlagAt(F_DSCO)) = Cardinality(DOMAIN DatasetCreationOptions)
        /\ {args[i + 1] : i \in FlagAt(F_DSCO)}
               = KeyEqualsValue(DatasetCreationOptions)
        /\ Cardinality(FlagAt(F_LCO)) = Cardinality(DOMAIN LayerCreationOptions)
        /\ {args[i + 1] : i \in FlagAt(F_LCO)}
               = KeyEqualsValue(LayerCreationOptions)
        /\ Cardinality(FlagAt(F_CONFIG)) = Cardinality(DOMAIN ConfigOptions)
        /\ {<<args[i + 1], args[i + 2]>> : i \in FlagAt(F_CONFIG)}
               = Items(ConfigOptions)
        /\ FlagAt(F_NLT) # {} <=> Truthy(GeomType)
        /\ \A i \in FlagAt(F_NLT) : args[i + 1] = GeomType
        /\ SubSeq(args, last + 1, n) =
               IF Truthy(in_table)
               THEN <<Encode(out_ds), Encode(in_ds), in_table>>
               ELSE <<Encode(out_ds), Encode(in_ds)>>

\* An execute whose list holds every group at once, two -dsco pairs and
\* three positionals.
C3_Witness ==
    /\ Executed
    /\ FlagAt(F_UPDATE) # {} /\ FlagAt(F_OVERWRITE) # {}
    /\ FlagAt(F_T_SRS) # {} /\ FlagAt(F_A_SRS) # {} /\ FlagAt(F_S_SRS) # {}
    /\ Cardinality(FlagAt(F_DSCO)) = 2
    /\ FlagAt(F_LCO) # {} /\ FlagAt(F_CONFIG) # {}
    /\ FlagAt(F_NLN) # {} /\ FlagAt(F_NLT) # {}
    /\ args[Len(args)] = PARCELS

\* C5: the value after -nln is the output table name if set, else the input
\* table name if set, else the base filename of a file input; a connection
\* input without table names gets no -nln; the flag occurs at most once.
C5_LayerNamePrecedence ==
    Executed =>
        LET at == FlagAt(F_NLN) IN
        /\ Cardinality(at) <= 1
        /\ Truthy(out_table) =>
               at # {} /\ \A i \in at : args[i + 1] = out_table
        /\ ~Truthy(out_table) /\ Truthy(in_table) =>
               at # {} /\ \A i \in at : args[i + 1] = in_table
        /\ ~Truthy(out_table) /\ ~Truthy(in_table) /\ in_ds.kind = "file" =>
               at # {} /\ \A i \in at : IsBaseNameOf(args[i + 1], Encode(in_ds))
        /\ ~Truthy(out_table) /\ ~Truthy(in_table) /\ in_ds.kind # "file" =>
               at = {}

\* An execute with both table names set, where the output table's name was
\* chosen over the input table's.
C5_Witness ==
    /\ Executed
    /\ Truthy(out_table) /\ Truthy(in_table) /\ out_table # in_table
    /\ \E i \in FlagAt(F_NLN) : args[i + 1] = out_table

RoadsWithoutTables ==
    /\ Executed
    /\ in_ds = FileConnectionString(ROADS_SHP)
    /\ ~Truthy(in_table)
    /\ ~Truthy(out_table)

\* C6, as claimed: for the input "/data/roads.shp" without table names the
\* value after -nln is "roads".
C6_LayerNameIsRoads ==
    RoadsWithoutTables =>
        /\ FlagAt(F_NLN) # {}
        /\ \A i \in FlagAt(F_NLN) : args[i + 1] = <<"r", "o", "a", "d", "s">>

\* C6, amended: for the input "/data/roads.shp" without table names the
\* value after -nln is "roads.shp", the base filename with its extension.
C6_LayerNameIsRoadsShp ==
    RoadsWithoutTables =>
        /\ FlagAt(F_NLN) # {}
        /\ \A i \in FlagAt(F_NLN) : args[i + 1] = <<"r", "o", "a", "d", "s", ".", "s", "h", "p">>

C6_Witness == RoadsWithoutTables /\ FlagAt(F_NLN) # {}

\* C7: set_input, set_output and set_output_mode each return the builder.
C7_ConfigurationReturnsSelf ==
    op \in {"set_input", "set_output", "set_output_mode"} => ret = "self"

\* C8: the logging list and the execution list have the same length and the
\* same token everywhere but at the two destination positionals, which hold
\* the display text in one and the execution encoding in the other; the
\* list handed to the process runner is the execution list.
C8_SafeArgsParallel ==
    Executed =>
        LET n == Len(args)
            outPos == n - NumPositionals + 1
            inPos == n - NumPositionals + 2
        IN
        /\ Len(safe_args) = n
        /\ \A i \in 1..n : i \notin {outPos, inPos} => safe_args[i] = args[i]
        /\ args[outPos] = Encode(out_ds) /\ safe_args[outPos] = Display(out_ds)
        /\ args[inPos] = Encode(in_ds) /\ safe_args[inPos] = Display(in_ds)
        /\ run_args = args
        /\ args # safe_args => run_args # safe_args

\* An execute whose two destinations each render differently for display
\* and for execution, with an input table name as third positional.
C8_Witness ==
    /\ Executed
    /\ Encode(out_ds) # Display(out_ds)
    /\ Encode(in_ds) # Display(in_ds)
    /\ Truthy(in_table)
    /\ run_args # safe_args

MergedView(internal, user, view) ==
    /\ DOMAIN view = DOMAIN internal \cup DOMAIN user
    /\ \A k \in DOMAIN user : view[k] = user[k]
    /\ \A k \in DOMAIN internal \ DOMAIN user : view[k] = internal[k]

\* C4: each accessor reads as the union of the internal and the user mapping
\* with the user's value on every shared key; an assignment to an accessor
\* changes no internal mapping and at most the one user mapping.
C4_UserOverridesInternal ==
    /\ [](/\ MergedView(dataset_creation_options_internal,
                        dataset_creation_options_user, DatasetCreationOptions)
          /\ MergedView(layer_creation_options_internal,
                        layer_creation_options_user, LayerCreationOptions)
          /\ MergedView(config_options_internal,
                        config_options_user, ConfigOptions))
    /\ [][op' = "setattr" =>
             /\ internalVars' = internalVars
             /\ Cardinality({i \in 1..3 : userVars'[i] # userVars[i]}) <= 1]_vars

\* After an assignment, both the dataset-creation and the config layer hold
\* a key in the internal and in the user mapping, with different values.
C4_Witness ==
    /\ op = "setattr"
    /\ SPATIALITE \in DOMAIN dataset_creation_options_internal
    /\ SPATIALITE \in DOMAIN dataset_creation_options_user
    /\ dataset_creation_options_user[SPATIALITE]
           # dataset_creation_options_internal[SPATIALITE]
    /\ SHAPE_ENCODING \in DOMAIN config_options_internal
    /\ SHAPE_ENCODING \in DOMAIN config_options_user
    /\ config_options_user[SHAPE_ENCODING]
           # config_options_internal[SHAPE_ENCODING]

\* Every key of m is a key of its next value, with the same value unless
\* the step is a call that injects that key anew.
Grows(m, next, injected) ==
    /\ DOMAIN m \subseteq DOMAIN next
    /\ \A k \in DOMAIN m : next[k] = m[k] \/ (k = injected[1] /\ injected[2])

\* C10: no step removes an entry of an internal mapping (set_input with an
\* encoding may replace the value of SHAPE_ENCODING, nothing else changes a
\* value); execute changes no attribute of the builder; and every internal
\* entry whose key the user mapping lacks is in execute's argument list.
C10_InternalOptionsGrow ==
    /\ [][/\ Grows(config_options_internal, config_options_internal',
                  <<SHAPE_ENCODING,
                    op' = "set_input" /\ Truthy(in_encoding')>>)
          /\ Grows(dataset_creation_options_internal,
                   dataset_creation_options_internal', <<SPATIALITE, FALSE>>)
          /\ Grows(layer_creation_options_internal,
                   layer_creation_options_internal', <<SPATIALITE, FALSE>>)
          /\ op' = "execute" => configVars' = configVars]_vars
    /\ [](Executed =>
            /\ \A k \in DOMAIN config_options_internal
                        \ DOMAIN config_options_user :
                   \E i \in FlagAt(F_CONFIG) :
                       /\ args[i + 1] = k
                       /\ args[i + 2] = config_options_internal[k]
            /\ \A k \in DOMAIN dataset_creation_options_internal
                        \ DOMAIN dataset_creation_options_user :
                   \E i \in FlagAt(F_DSCO) :
                       args[i + 1] = k \o <<"=">>
                           \o dataset_creation_options_internal[k])

\* An execute after set_input without encoding and set_output for a format
\* other than SQLite, with both injected entries still in force.
C10_Witness ==
    /\ Executed
    /\ in_encoding = None
    /\ out_file_type # SQLITE
    /\ SHAPE_ENCODING \in DOMAIN config_options_internal
                          \ DOMAIN config_options_user
    /\ SPATIALITE \in DOMAIN dataset_creation_options_internal
                      \ DOMAIN dataset_creation_options_user
    /\ FlagAt(F_CONFIG) # {} /\ FlagAt(F_DSCO) # {}

====
